---------------------------- MODULE Spec2Model ----------------------------
(***************************************************************************)
(* The amp-story progress bar (extensions/amp-story/1.0/progress-bar.js)   *)
(* as a state machine.  The fields of ProgressBar are the variables, each  *)
(* host callback (build, PAGE_IDS / RTL_STATE store updates, replay,       *)
(* resize, updateProgress, the deferred measure and mutate callbacks) is   *)
(* one action.  Methods are operators on a record of the instance's        *)
(* fields, so that a handler calling another method is a composition.      *)
(***************************************************************************)
EXTENDS Integers, Sequences, FiniteSets, TLC

(* ------------------------------ constants ------------------------------ *)

ELLIPSE_WIDTH_PX == 2
SEGMENTS_MARGIN_PX == 2
PROGRESS_BAR_PADDING_PX == 4
MAX_SEGMENTS == 20
SEGMENT_INCREMENT == 5

\* The empty string '' that activeSegmentId_ holds before any update.
EmptyId == 0

\* Progress is a number in [0.0, 1.0], kept in tenths: FULL is 1.0.
FULL == 10
Progresses == {0, 5, FULL}

(* -------------------------------- bounds ------------------------------- *)

\* Longest page list the store delivers.
MaxPages == 26
\* Number of PAGE_IDS changes delivered after build().
MaxListChanges == 1
\* Render mutations that may wait for the write phase when a handler starts.
MaxPending == 1

\* Page widths (px) the measure phase may read.
PageWidths == {324}

Min(a, b) == IF a < b THEN a ELSE b
Max(a, b) == IF a > b THEN a ELSE b

Range(n) == [i \in 1..n |-> i]

\* Page-id lists the store may hold: empty, short, two lists longer than
\* MAX_SEGMENTS, and one with duplicates, in another order and without
\* page 3.
PageIdLists ==
  { <<>>,
    Range(3),
    Range(MAX_SEGMENTS + 2),
    Range(MaxPages),
    <<MaxPages, MAX_SEGMENTS + 1, MaxPages, 1, MAX_SEGMENTS + 1>> }

\* Segment ids a caller may pass: '', page ids at both ends of the lists and
\* around MAX_SEGMENTS, and one id that is on no list.
CallIds == {EmptyId, 1, 3, MAX_SEGMENTS + 1, MaxPages, MaxPages + 1}

VARIABLES
  isBuilt_, root_, segmentCount_, activeSegmentIndex_,
  activeSegmentProgress_, segmentIdMap_, activeSegmentId_, segments_,
  firstExpandedSegmentIndex_, barWidthPx_,
  children,      \* the <li> children of root_, in document order
  values,        \* per child: the scale (fill) of its progress-value <div>
  created,       \* number of <li> elements created so far
  roots,         \* number of <ol> root elements created so far
  listeners,     \* subscriptions registered by build()
  measures,      \* pending measureElement callbacks of build()
  mutations,     \* pending render_ mutateElement callbacks, oldest first
  layout,        \* the transforms applied by the last render_ mutation
  animateClass,  \* i-amphtml-animate-progress on root_
  rootDir,       \* dir="rtl" on root_
  pageIds,       \* store: StateProperty.PAGE_IDS
  rtlState,      \* store: StateProperty.RTL_STATE
  listChanges,   \* PAGE_IDS changes delivered so far
  lastCall       \* the last call of build, updateProgress or an event
                 \* handler (not the scheduler's callbacks): how it ended

barVars ==
  <<isBuilt_, root_, segmentCount_, activeSegmentIndex_,
    activeSegmentProgress_, segmentIdMap_, activeSegmentId_, segments_,
    firstExpandedSegmentIndex_, barWidthPx_, children, values, created,
    roots, listeners, measures, mutations>>

vars ==
  <<isBuilt_, root_, segmentCount_, activeSegmentIndex_,
    activeSegmentProgress_, segmentIdMap_, activeSegmentId_, segments_,
    firstExpandedSegmentIndex_, barWidthPx_, children, values, created,
    roots, listeners, measures, mutations, layout, animateClass, rootDir,
    pageIds, rtlState, listChanges, lastCall>>

\* What a handler did, collected while it runs.
NoTrace == [animated |-> {}, renders |-> 0, threw |-> FALSE, ret |-> 0]

\* The instance (and the DOM it owns) as one record.
This ==
  [isBuilt_ |-> isBuilt_, root_ |-> root_, segmentCount_ |-> segmentCount_,
   activeSegmentIndex_ |-> activeSegmentIndex_,
   activeSegmentProgress_ |-> activeSegmentProgress_,
   segmentIdMap_ |-> segmentIdMap_, activeSegmentId_ |-> activeSegmentId_,
   segments_ |-> segments_,
   firstExpandedSegmentIndex_ |-> firstExpandedSegmentIndex_,
   barWidthPx_ |-> barWidthPx_, children |-> children, values |-> values,
   created |-> created, roots |-> roots, listeners |-> listeners,
   measures |-> measures, mutations |-> mutations, trace |-> NoTrace]

Commit(b) ==
  /\ isBuilt_' = b.isBuilt_
  /\ root_' = b.root_
  /\ segmentCount_' = b.segmentCount_
  /\ activeSegmentIndex_' = b.activeSegmentIndex_
  /\ activeSegmentProgress_' = b.activeSegmentProgress_
  /\ segmentIdMap_' = b.segmentIdMap_
  /\ activeSegmentId_' = b.activeSegmentId_
  /\ segments_' = b.segments_
  /\ firstExpandedSegmentIndex_' = b.firstExpandedSegmentIndex_
  /\ barWidthPx_' = b.barWidthPx_
  /\ children' = b.children
  /\ values' = b.values
  /\ created' = b.created
  /\ roots' = b.roots
  /\ listeners' = b.listeners
  /\ measures' = b.measures
  /\ mutations' = b.mutations

NoListeners == [replay |-> 0, pageIds |-> 0, rtl |-> 0, resize |-> 0]

(* ------------------------------- registry ------------------------------ *)

buildSegmentEl_(b) ==
  LET el == b.created + 1 IN
  [b EXCEPT !.created = el,
            !.children = Append(@, el),
            !.values = Append(@, 0),
            !.segments_ = Append(@, el)]

\* clear_ that forgets to replace the id map.
clear_keepsMap(b) ==
  [b EXCEPT !.children = <<>>,
            !.values = <<>>,
            !.segmentCount_ = 0]

clear_(b) ==
  [b EXCEPT !.children = <<>>,
            !.values = <<>>,
            !.segmentIdMap_ = <<>>,
            !.segmentCount_ = 0]

addSegment_(b, id) ==
  buildSegmentEl_(
    [b EXCEPT !.segmentIdMap_ = (id :> b.segmentCount_) @@ @,
              !.segmentCount_ = @ + 1])

assertVaildSegmentId_(b, segmentId) == segmentId \in DOMAIN b.segmentIdMap_


(* ----------------------------- layout / window ------------------------- *)

getNextEllipsisCount_(b) ==
  LET nextPagesCount ==
        b.segmentCount_ - (b.firstExpandedSegmentIndex_ + MAX_SEGMENTS)
  IN  IF nextPagesCount > 3 THEN 3 ELSE Max(nextPagesCount, 0)

getPrevEllipsisCount_(b) == Min(3, b.firstExpandedSegmentIndex_)

\* The segment width is a quotient by min(segmentCount_, MAX_SEGMENTS); it
\* is kept exact as num/den.  den = 0 is the division by zero of an empty
\* bar, whose result is not a finite number.
getSegmentWidth_(b) ==
  LET nextEllipsisCount == getNextEllipsisCount_(b)
      prevEllipsisCount == getPrevEllipsisCount_(b)
      totalEllipsisWidth ==
        (nextEllipsisCount + prevEllipsisCount)
          * (ELLIPSE_WIDTH_PX + SEGMENTS_MARGIN_PX)
      totalSegmentsWidth == b.barWidthPx_ - totalEllipsisWidth
      den == Min(b.segmentCount_, MAX_SEGMENTS)
  IN  [num |-> IF den = 0 THEN 0
               ELSE totalSegmentsWidth - SEGMENTS_MARGIN_PX * den,
       den |-> den]

\* render_ computes segmentWidth and the starting translateX at once and
\* hands the loop to mutateElement: the loop runs later, in action Mutate.
render_(b, shouldAnimate) ==
  LET segmentWidth == getSegmentWidth_(b)
      translateX ==
        (0 - (b.firstExpandedSegmentIndex_ - getPrevEllipsisCount_(b)))
          * (ELLIPSE_WIDTH_PX + SEGMENTS_MARGIN_PX)
  IN  [b EXCEPT !.mutations =
                  Append(@, [segmentWidth |-> segmentWidth,
                             translateX |-> translateX,
                             shouldAnimate |-> shouldAnimate]),
                !.trace.renders = @ + 1]

\* replay_ that also puts the active segment back to the first page.
replay_resetsActive(b) ==
  render_([b EXCEPT !.firstExpandedSegmentIndex_ = 0,
                    !.activeSegmentIndex_ = 0,
                    !.activeSegmentProgress_ = 0],
          FALSE)

replay_(b) == render_([b EXCEPT !.firstExpandedSegmentIndex_ = 0], FALSE)

\* checkIndexForOverflow_ that always advances by SEGMENT_INCREMENT, even
\* when fewer segments are left.
checkIndexForOverflow_alwaysSteps(b) ==
  IF b.activeSegmentIndex_ >= b.firstExpandedSegmentIndex_ + MAX_SEGMENTS
  THEN render_(
         [b EXCEPT !.firstExpandedSegmentIndex_ = @ + SEGMENT_INCREMENT],
         TRUE)
  ELSE IF b.activeSegmentIndex_ < b.firstExpandedSegmentIndex_
  THEN render_(
         [b EXCEPT !.firstExpandedSegmentIndex_ =
            @ - (IF b.firstExpandedSegmentIndex_ - SEGMENT_INCREMENT < 0
                 THEN b.firstExpandedSegmentIndex_
                 ELSE SEGMENT_INCREMENT)],
         TRUE)
  ELSE b

\* checkIndexForOverflow_ that moves back by SEGMENT_INCREMENT without
\* stopping at 0.
checkIndexForOverflow_noClamp(b) ==
  IF b.activeSegmentIndex_ >= b.firstExpandedSegmentIndex_ + MAX_SEGMENTS
  THEN LET nextLimit ==
             b.firstExpandedSegmentIndex_ + MAX_SEGMENTS
               + SEGMENT_INCREMENT - 1
       IN  render_(
             [b EXCEPT !.firstExpandedSegmentIndex_ =
                @ + (IF nextLimit < b.segmentCount_
                     THEN SEGMENT_INCREMENT
                     ELSE b.segmentCount_
                            - (b.firstExpandedSegmentIndex_ + MAX_SEGMENTS))],
             TRUE)
  ELSE IF b.activeSegmentIndex_ < b.firstExpandedSegmentIndex_
  THEN render_(
         [b EXCEPT !.firstExpandedSegmentIndex_ = @ - SEGMENT_INCREMENT],
         TRUE)
  ELSE b

checkIndexForOverflow_(b) ==
  IF b.activeSegmentIndex_ >= b.firstExpandedSegmentIndex_ + MAX_SEGMENTS
  THEN LET nextLimit ==
             b.firstExpandedSegmentIndex_ + MAX_SEGMENTS
               + SEGMENT_INCREMENT - 1
       IN  render_(
             [b EXCEPT !.firstExpandedSegmentIndex_ =
                @ + (IF nextLimit < b.segmentCount_
                     THEN SEGMENT_INCREMENT
                     ELSE b.segmentCount_
                            - (b.firstExpandedSegmentIndex_ + MAX_SEGMENTS))],
             TRUE)
  ELSE IF b.activeSegmentIndex_ < b.firstExpandedSegmentIndex_
  THEN render_(
         [b EXCEPT !.firstExpandedSegmentIndex_ =
            @ - (IF b.firstExpandedSegmentIndex_ - SEGMENT_INCREMENT < 0
                 THEN b.firstExpandedSegmentIndex_
                 ELSE SEGMENT_INCREMENT)],
         TRUE)
  ELSE b

\* The initial window pinned to the end from index MAX_SEGMENTS on, instead
\* of from the index after it.
getInitialFirstExpandedSegmentIndex_atLeast(b, segmentIndex) ==
  IF /\ segmentIndex > MAX_SEGMENTS
     /\ segmentIndex + MAX_SEGMENTS < b.segmentCount_
  THEN [b EXCEPT !.firstExpandedSegmentIndex_ =
                   segmentIndex - (segmentIndex % MAX_SEGMENTS)]
  ELSE IF segmentIndex >= MAX_SEGMENTS
  THEN [b EXCEPT !.firstExpandedSegmentIndex_ =
                   b.segmentCount_ - MAX_SEGMENTS]
  ELSE b

\* The initial window centred on the segment instead of snapped to a
\* multiple of MAX_SEGMENTS.
getInitialFirstExpandedSegmentIndex_centred(b, segmentIndex) ==
  IF /\ segmentIndex > MAX_SEGMENTS
     /\ segmentIndex + MAX_SEGMENTS < b.segmentCount_
  THEN [b EXCEPT !.firstExpandedSegmentIndex_ =
                   segmentIndex - (MAX_SEGMENTS \div 2)]
  ELSE IF segmentIndex > MAX_SEGMENTS
  THEN [b EXCEPT !.firstExpandedSegmentIndex_ =
                   b.segmentCount_ - MAX_SEGMENTS]
  ELSE b

getInitialFirstExpandedSegmentIndex_(b, segmentIndex) ==
  IF /\ segmentIndex > MAX_SEGMENTS
     /\ segmentIndex + MAX_SEGMENTS < b.segmentCount_
  THEN [b EXCEPT !.firstExpandedSegmentIndex_ =
                   segmentIndex - (segmentIndex % MAX_SEGMENTS)]
  ELSE IF segmentIndex > MAX_SEGMENTS
  THEN [b EXCEPT !.firstExpandedSegmentIndex_ =
                   b.segmentCount_ - MAX_SEGMENTS]
  ELSE b

(* ------------------------------- progress ------------------------------ *)

\* The style written to the progress-value <div> of the nth child of root_.
\* The scale stays in the DOM; the transition only matters for the write
\* itself: the writes that carry one are kept in the handler's trace.
updateProgressByIndex_(b, segmentIndex, progress, withTransition) ==
  LET nthChildIndex == segmentIndex + 1
      transition ==
        IF withTransition
        THEN IF progress = FULL \/ progress = 0 THEN "ease" ELSE "linear"
        ELSE "none"
  IN  IF nthChildIndex \in DOMAIN b.values
      THEN [b EXCEPT !.values[nthChildIndex] = progress,
                     !.trace.animated =
                       IF withTransition
                       THEN @ \cup {[index |-> segmentIndex,
                                     transition |-> transition]}
                       ELSE @]
      ELSE b

\* The decision without the rule for navigating backward.
shouldAnimate_noBackward(activeSegmentIndex, activeSegmentProgress, prevSegmentIndex, prevSegmentProgress) ==
  \/ prevSegmentProgress = FULL /\ activeSegmentProgress = FULL
  \/ activeSegmentIndex > prevSegmentIndex /\ activeSegmentProgress # FULL

\* The three ifs of updateSegments_ that set shouldAnimatePreviousSegment.
shouldAnimatePreviousSegment(activeSegmentIndex, activeSegmentProgress, prevSegmentIndex, prevSegmentProgress) ==
  \/ prevSegmentProgress = FULL /\ activeSegmentProgress = FULL
  \/ activeSegmentIndex > prevSegmentIndex /\ activeSegmentProgress # FULL
  \/ prevSegmentIndex > activeSegmentIndex /\ activeSegmentProgress = FULL

RECURSIVE updateSegmentsFrom(_, _, _, _, _, _)
\* The for loop of updateSegments_ for the indices lo..hi in order: the
\* first half of the range, then the second.
updateSegmentsFrom(b, lo, hi, activeSegmentIndex, prevSegmentIndex, animate) ==
  IF lo > hi THEN b
  ELSE IF lo = hi
  THEN IF lo = activeSegmentIndex THEN b
       ELSE LET progress == IF lo < activeSegmentIndex THEN FULL ELSE 0
                withTransition ==
                  IF animate THEN lo = prevSegmentIndex ELSE FALSE
            IN  updateProgressByIndex_(b, lo, progress, withTransition)
  ELSE LET mid == (lo + hi) \div 2
           b1 == updateSegmentsFrom(b, lo, mid, activeSegmentIndex,
                                    prevSegmentIndex, animate)
       IN  IF b1.segmentCount_ < 0 THEN b1
           ELSE updateSegmentsFrom(b1, mid + 1, hi, activeSegmentIndex,
                                   prevSegmentIndex, animate)

updateSegments_(b, activeSegmentIndex, activeSegmentProgress, prevSegmentIndex, prevSegmentProgress) ==
  updateSegmentsFrom(
    b, 0, b.segmentCount_ - 1, activeSegmentIndex, prevSegmentIndex,
    shouldAnimatePreviousSegment(activeSegmentIndex, activeSegmentProgress,
                                 prevSegmentIndex, prevSegmentProgress))

\* updateProgress once the segment id has been validated.
updateProgressValid(b, segmentId, progress, updateAllSegments) ==
    LET segmentIndex == b.segmentIdMap_[segmentId]
        b1 == updateProgressByIndex_(b, segmentIndex, progress, TRUE)
        b2 == IF b1.activeSegmentIndex_ = 0
              THEN render_(
                     getInitialFirstExpandedSegmentIndex_(b1, segmentIndex),
                     FALSE)
              ELSE b1
        b3 == IF b2.activeSegmentIndex_ # segmentIndex \/ updateAllSegments
              THEN updateSegments_(b2, segmentIndex, progress,
                                   b2.activeSegmentIndex_,
                                   b2.activeSegmentProgress_)
              ELSE b2
        b4 == [b3 EXCEPT !.activeSegmentProgress_ = progress,
                         !.activeSegmentIndex_ = segmentIndex,
                         !.activeSegmentId_ = segmentId]
    IN  checkIndexForOverflow_(b4)

\* updateProgress that records the segment id before validating it.
updateProgress_assertsLate(b, segmentId, progress, updateAllSegments) ==
  IF ~assertVaildSegmentId_(b, segmentId)
  THEN [b EXCEPT !.activeSegmentId_ = segmentId, !.trace.threw = TRUE]
  ELSE updateProgressValid(b, segmentId, progress, updateAllSegments)

\* devAssert throws: the call ends there and the caller's handler with it.
updateProgress(b, segmentId, progress, updateAllSegments) ==
  IF ~assertVaildSegmentId_(b, segmentId)
  THEN [b EXCEPT !.trace.threw = TRUE]
  ELSE updateProgressValid(b, segmentId, progress, updateAllSegments)

(* ------------------------------- handlers ------------------------------ *)

RECURSIVE addSegments(_, _, _, _)
\* pageIds.forEach(id => { if (!(id in segmentIdMap_)) addSegment_(id) }),
\* for ids[lo..hi] in order: the first half of the range, then the second.
\* (segmentCount_ is never negative: the test only has b1 evaluated before
\* the second half starts, which keeps the evaluation shallow.)
addSegments(b, ids, lo, hi) ==
  IF lo > hi THEN b
  ELSE IF lo = hi
  THEN IF ids[lo] \in DOMAIN b.segmentIdMap_ THEN b
       ELSE addSegment_(b, ids[lo])
  ELSE LET mid == (lo + hi) \div 2
           b1 == addSegments(b, ids, lo, mid)
       IN  IF b1.segmentCount_ < 0 THEN b1
           ELSE addSegments(b1, ids, mid + 1, hi)

\* The PAGE_IDS subscription of build().
onPageIds(b, ids) ==
  LET b1 == addSegments(IF b.isBuilt_ THEN clear_(b) ELSE b, ids, 1, Len(ids))
  IN  IF b.isBuilt_
      THEN updateProgress(b1, b1.activeSegmentId_,
                          b1.activeSegmentProgress_, TRUE)
      ELSE b1

getRoot(b) == b.root_

\* build() on an instance that is not built yet: ids is the store's current
\* PAGE_IDS, delivered at once (callToInitialize).
buildOnce(b, ids) ==
    LET b1 == [b EXCEPT !.roots = @ + 1,
                        !.root_ = b.roots + 1,
                        !.children = <<>>,
                        !.values = <<>>,
                        !.listeners.replay = @ + 1,
                        !.listeners.pageIds = @ + 1]
        b2 == onPageIds(b1, ids)
        b3 == [b2 EXCEPT !.listeners.rtl = @ + 1,
                         !.listeners.resize = @ + 1,
                         !.measures = @ + 1,
                         !.isBuilt_ = TRUE]
    IN  [b3 EXCEPT !.trace.ret = getRoot(b3)]

\* build() without the isBuilt_ check.
build_unguarded(b, ids) == buildOnce(b, ids)

build(b, ids) ==
  IF b.isBuilt_
  THEN [b EXCEPT !.trace.ret = getRoot(b)]
  ELSE buildOnce(b, ids)

\* The measure callback of onResize_ (and, without the render, of build()).
onMeasure(b, pageWidth, render) ==
  LET b1 == [b EXCEPT !.barWidthPx_ = pageWidth - PROGRESS_BAR_PADDING_PX]
  IN  IF render THEN render_(b1, FALSE) ELSE b1

RECURSIVE renderLoop(_, _, _, _, _)
\* The for loop of render_'s mutate callback from `index` on, with the
\* running translateX = [x, finite]; lengths are in units of 1/den px.
renderLoop(b, job, rtl, index, translateX) ==
  IF index >= b.segmentCount_ THEN <<>>
  ELSE
    LET den == Max(job.segmentWidth.den, 1)
        expanded ==
          /\ index >= b.firstExpandedSegmentIndex_
          /\ index < b.firstExpandedSegmentIndex_ + MAX_SEGMENTS
        width ==
          IF expanded
          THEN [n |-> job.segmentWidth.num,
                finite |-> job.segmentWidth.den > 0]
          ELSE [n |-> ELLIPSE_WIDTH_PX * den, finite |-> TRUE]
        \* transform_(segment, translateX, width)
        applied ==
          [el |-> b.segments_[index + 1],
           translateX |-> IF ~translateX.finite THEN 0
                          ELSE IF rtl THEN 0 - translateX.n
                          ELSE translateX.n,
           width |-> IF width.finite THEN width.n ELSE 0,
           finite |-> translateX.finite /\ width.finite]
        next ==
          [n |-> translateX.n + width.n + SEGMENTS_MARGIN_PX * den,
           finite |-> translateX.finite /\ width.finite]
    IN  <<applied>> \o renderLoop(b, job, rtl, index + 1, next)

NoLayout == [den |-> 1, segs |-> <<>>]

\* The non-active segments a handler wrote with a transition.
NonActiveAnimated(b) ==
  {w.index : w \in b.trace.animated} \ {b.activeSegmentIndex_}

\* How a call ended; fresh: it started on a bar that had no active segment
\* yet (activeSegmentId_ was still '').
Call(op, b) ==
  [op |-> op, threw |-> b.trace.threw, ret |-> b.trace.ret,
   animated |-> NonActiveAnimated(b), fresh |-> activeSegmentId_ = EmptyId]

(* -------------------------------- actions ------------------------------ *)

\* The state after the constructor, with the store holding one of `lists`.
InitFrom(lists) ==
  /\ isBuilt_ = FALSE
  /\ root_ = 0
  /\ segmentCount_ = 0
  /\ activeSegmentIndex_ = 0
  /\ activeSegmentProgress_ = FULL
  /\ segmentIdMap_ = <<>>
  /\ activeSegmentId_ = EmptyId
  /\ segments_ = <<>>
  /\ firstExpandedSegmentIndex_ = 0
  /\ barWidthPx_ = 0
  /\ children = <<>>
  /\ values = <<>>
  /\ created = 0
  /\ roots = 0
  /\ listeners = NoListeners
  /\ measures = 0
  /\ mutations = <<>>
  /\ layout = NoLayout
  /\ animateClass = FALSE
  /\ rootDir = FALSE
  /\ pageIds \in lists
  /\ rtlState \in BOOLEAN
  /\ listChanges = 0
  /\ lastCall = [op |-> "new", threw |-> FALSE, ret |-> 0, animated |-> {},
                 fresh |-> TRUE]

Init == InitFrom(PageIdLists)

\* A handler starts only while the write phase is not overdue.  (Each
\* action binds the handler's result b once: \E b \in {...}.)
Idle == Len(mutations) < MaxPending

Build ==
  /\ Idle
  /\ \E b \in {build(This, pageIds)} :
       /\ Commit(b)
       /\ rootDir' = IF isBuilt_ THEN rootDir ELSE rtlState
       /\ lastCall' = Call("build", b)
  /\ UNCHANGED <<layout, animateClass, pageIds, rtlState, listChanges>>

\* The store publishes a new page list; once build() has subscribed, the
\* subscription runs.
SetPageIds(ids) ==
  /\ Idle
  /\ listeners.pageIds > 0
  /\ listChanges < MaxListChanges
  /\ pageIds' = ids
  /\ listChanges' = listChanges + 1
  /\ \E b \in {onPageIds(This, ids)} :
       /\ Commit(b)
       /\ lastCall' = Call("pageIds", b)
  /\ UNCHANGED <<layout, animateClass, rootDir, rtlState>>

UpdateProgress(segmentId, progress) ==
  /\ Idle
  /\ \E b \in {updateProgress(This, segmentId, progress, FALSE)} :
       /\ Commit(b)
       /\ lastCall' = Call("updateProgress", b)
  /\ UNCHANGED <<layout, animateClass, rootDir, pageIds, rtlState,
                 listChanges>>

Replay ==
  /\ Idle
  /\ listeners.replay > 0
  /\ \E b \in {replay_(This)} :
       /\ Commit(b)
       /\ lastCall' = Call("replay", b)
  /\ UNCHANGED <<layout, animateClass, rootDir, pageIds, rtlState,
                 listChanges>>

\* The store flips RTL_STATE; onRtlStateUpdate_ sets or removes dir.
SetRtlState ==
  /\ Idle
  /\ listeners.rtl > 0
  /\ rtlState' = ~rtlState
  /\ rootDir' = ~rtlState
  /\ UNCHANGED <<barVars, layout, animateClass, pageIds, listChanges,
                 lastCall>>

\* The measure callback that build() scheduled.
MeasureElement(pageWidth) ==
  /\ measures > 0
  /\ \E b \in {onMeasure([This EXCEPT !.measures = @ - 1], pageWidth, FALSE)} :
         Commit(b)
  /\ UNCHANGED <<layout, animateClass, rootDir, pageIds, rtlState,
                 listChanges, lastCall>>

\* A viewport resize, debounced, then measured: onResize_'s callback.
Resize(pageWidth) ==
  /\ Idle
  /\ listeners.resize > 0
  /\ \E b \in {onMeasure(This, pageWidth, TRUE)} :
       /\ Commit(b)
       /\ lastCall' = Call("resize", b)
  /\ UNCHANGED <<layout, animateClass, rootDir, pageIds, rtlState,
                 listChanges>>

\* The write phase runs the oldest render_ callback, then its .then().
Mutate ==
  /\ mutations # <<>>
  /\ LET job == Head(mutations) IN
       /\ layout' =
            [den |-> Max(job.segmentWidth.den, 1),
             segs |-> renderLoop(
                        This, job, rtlState, 0,
                        [n |-> job.translateX * Max(job.segmentWidth.den, 1),
                         finite |-> TRUE])]
       /\ animateClass' = job.shouldAnimate
  /\ mutations' = Tail(mutations)
  /\ UNCHANGED <<isBuilt_, root_, segmentCount_, activeSegmentIndex_,
                 activeSegmentProgress_, segmentIdMap_, activeSegmentId_,
                 segments_, firstExpandedSegmentIndex_, barWidthPx_,
                 children, values, created, roots, listeners, measures,
                 rootDir, pageIds, rtlState, listChanges, lastCall>>

Next ==
  \/ Build
  \/ \E ids \in PageIdLists : SetPageIds(ids)
  \/ \E id \in CallIds, p \in Progresses : UpdateProgress(id, p)
  \/ Replay
  \/ SetRtlState
  \/ \E w \in PageWidths : MeasureElement(w)
  \/ \E w \in PageWidths : Resize(w)
  \/ Mutate

Spec == Init /\ [][Next]_vars

(* ------------------- walking forward through the story ----------------- *)

\* Segment counts of the stories walked through: below, at and above
\* MAX_SEGMENTS, with and without a full SEGMENT_INCREMENT step to take.
WalkCounts ==
  {3, MAX_SEGMENTS, MAX_SEGMENTS + 1, MAX_SEGMENTS + SEGMENT_INCREMENT - 1,
   MAX_SEGMENTS + SEGMENT_INCREMENT, MaxPages, MaxPages + SEGMENT_INCREMENT}

WalkLists == {Range(n) : n \in WalkCounts}

InitWalk == InitFrom(WalkLists)

\* The page after the active one (page ids of a Range list are index + 1).
NextPage == IF activeSegmentId_ = EmptyId THEN 1 ELSE activeSegmentId_ + 1

\* The story advances to the next page.
WalkForward(progress) ==
  /\ isBuilt_
  /\ NextPage <= segmentCount_
  /\ UpdateProgress(NextPage, progress)

\* The active page reports more progress.
WalkTick(progress) ==
  /\ activeSegmentId_ # EmptyId
  /\ UpdateProgress(activeSegmentId_, progress)

NextWalk ==
  \/ Build
  \/ \E p \in Progresses : WalkForward(p)
  \/ \E p \in Progresses : WalkTick(p)
  \/ \E w \in PageWidths : MeasureElement(w)
  \/ Mutate

SpecWalk == InitWalk /\ [][NextWalk]_vars

(* ---------------------- opening the story at any page ------------------- *)

\* Segment counts of the stories opened at a page: short, above MAX_SEGMENTS,
\* and long enough to hold a window with segments on both sides of it (more
\* than 2 * MAX_SEGMENTS + 1).
JumpCounts ==
  {3, MAX_SEGMENTS + 2, MaxPages, 2 * MAX_SEGMENTS + 2,
   2 * MAX_SEGMENTS + 2 * SEGMENT_INCREMENT}

JumpLists == {Range(n) : n \in JumpCounts}

\* Pages a caller jumps to: the first ones, the ones around MAX_SEGMENTS,
\* pages in the middle of the long stories and the last page.
JumpIds ==
  {1, 3, MAX_SEGMENTS + 1, MAX_SEGMENTS + 2,
   MAX_SEGMENTS + SEGMENT_INCREMENT + 1,
   MAX_SEGMENTS + 2 * SEGMENT_INCREMENT + 1,
   2 * MAX_SEGMENTS + 2 * SEGMENT_INCREMENT}

InitJump == InitFrom(JumpLists)

NextJump ==
  \/ Build
  \/ \E id \in JumpIds, p \in Progresses : UpdateProgress(id, p)
  \/ Replay
  \/ \E w \in PageWidths : MeasureElement(w)
  \/ Mutate

SpecJump == InitJump /\ [][NextJump]_vars

(* ------------------------- derived state functions --------------------- *)

leadingOverflowCount == getPrevEllipsisCount_(This)
trailingOverflowCount == getNextEllipsisCount_(This)

\* The last call was an updateProgress that returned normally: the public
\* call, or the one the PAGE_IDS subscription makes with updateAllSegments.
UpdateProgressDone ==
  /\ lastCall.op \in {"updateProgress", "pageIds"}
  /\ ~lastCall.threw

ActiveInWindow ==
  /\ firstExpandedSegmentIndex_ <= activeSegmentIndex_
  /\ activeSegmentIndex_ < firstExpandedSegmentIndex_ + MAX_SEGMENTS

(* --------------------------------- C1 ---------------------------------- *)

\* C1: in every reachable state, if segmentCount > windowSize then
\* 0 <= firstVisibleIndex <= segmentCount - windowSize, and otherwise
\* firstVisibleIndex = 0 and both overflow counts are 0.
C1_WindowInRange ==
  /\ segmentCount_ > MAX_SEGMENTS =>
       /\ 0 <= firstExpandedSegmentIndex_
       /\ firstExpandedSegmentIndex_ <= segmentCount_ - MAX_SEGMENTS
  /\ segmentCount_ <= MAX_SEGMENTS =>
       /\ firstExpandedSegmentIndex_ = 0
       /\ leadingOverflowCount = 0
       /\ trailingOverflowCount = 0

(* --------------------------------- C2 ---------------------------------- *)

\* C2: after every successful updateProgress the active index lies in the
\* fully rendered window [firstVisibleIndex, firstVisibleIndex + windowSize).
C2_ActiveInWindow == UpdateProgressDone => ActiveInWindow

(* --------------------------------- C4 ---------------------------------- *)

\* C4: in every reachable state with segmentCount > windowSize, exactly
\* windowSize indices of [0, segmentCount) are in the fully rendered range,
\* and the two overflow counts sum to at most segmentCount - windowSize.
C4_FullWindow ==
  segmentCount_ > MAX_SEGMENTS =>
    /\ Cardinality(
         {i \in 0..(segmentCount_ - 1) :
            /\ i >= firstExpandedSegmentIndex_
            /\ i < firstExpandedSegmentIndex_ + MAX_SEGMENTS})
         = MAX_SEGMENTS
    /\ leadingOverflowCount + trailingOverflowCount
         <= segmentCount_ - MAX_SEGMENTS

(* --------------------------------- C5 ---------------------------------- *)

\* The animation rules (a), (b), (c) for a move from segment a at progress
\* pa to segment b at progress pb.
AnimateRule(a, pa, b, pb) ==
  /\ a # b
  /\ \/ pa = FULL /\ pb = FULL
     \/ b > a /\ pb # FULL
     \/ b < a /\ pb = FULL

\* A step that is an updateProgress which returned normally and which was
\* not the first one (a previous call had set the active segment).  The
\* scheduler's callbacks leave lastCall and the active state as they are; an
\* update that leaves both as they are has a = b and animated nothing.
SecondUpdateStep ==
  /\ lastCall'.op \in {"updateProgress", "pageIds"}
  /\ ~lastCall'.threw
  /\ activeSegmentId_ # EmptyId
  /\ <<lastCall, activeSegmentIndex_, activeSegmentProgress_,
       activeSegmentId_, listChanges>>'
       # <<lastCall, activeSegmentIndex_, activeSegmentProgress_,
           activeSegmentId_, listChanges>>

\* C5 as claimed: of two consecutive updateProgress calls, the second writes
\* the previous active segment a with a transition exactly when a # b and
\* one of the rules (a), (b), (c) holds, and no other non-active segment.
C5_AnimateAsClaimed ==
  [][SecondUpdateStep =>
       lastCall'.animated =
         IF AnimateRule(activeSegmentIndex_, activeSegmentProgress_,
                        activeSegmentIndex_', activeSegmentProgress_')
         THEN {activeSegmentIndex_} ELSE {}]_vars

\* C5, amended: the same, for a segment a that still exists when the second
\* call runs (a < segmentCount); no non-active segment is written with a
\* transition when a list change has left fewer than a + 1 segments.
C5_AnimatePrevious ==
  [][SecondUpdateStep =>
       lastCall'.animated =
         IF /\ AnimateRule(activeSegmentIndex_, activeSegmentProgress_,
                           activeSegmentIndex_', activeSegmentProgress_')
            /\ activeSegmentIndex_ < segmentCount_'
         THEN {activeSegmentIndex_} ELSE {}]_vars

\* An update has just written the segment it left behind with a transition;
\* that segment is not the placeholder index 0 of a bar without updates.
C5_Witness ==
  /\ UpdateProgressDone
  /\ \E a \in lastCall.animated : a > 0 /\ a # activeSegmentIndex_

(* --------------------------------- C6 ---------------------------------- *)

\* C6: after every successful updateProgress(id, p), the active segment's
\* fill is p, every segment before it has fill 1 and every one after it 0.
C6_FillsSynced ==
  UpdateProgressDone =>
    \A i \in 1..Len(values) :
      values[i] = IF i - 1 = activeSegmentIndex_ THEN activeSegmentProgress_
                  ELSE IF i - 1 < activeSegmentIndex_ THEN FULL
                  ELSE 0

(* --------------------------------- C7 ---------------------------------- *)

\* C7: updateProgress with an id that is not registered fails with the
\* assertion and changes nothing: active state, window, fills, registry and
\* DOM are as before and no relayout is requested.
C7_UnknownSegmentAborts ==
  \A id \in CallIds, p \in Progresses :
    id \notin DOMAIN segmentIdMap_ =>
      LET r == updateProgress(This, id, p, FALSE)
      IN  /\ r.trace.threw
          /\ r.trace.renders = 0
          /\ r.trace.animated = {}
          /\ [r EXCEPT !.trace = NoTrace] = This

\* A call with an unknown id has just failed on a bar that has segments and
\* an active segment.
C7_Witness ==
  /\ lastCall.op = "updateProgress"
  /\ lastCall.threw
  /\ segmentCount_ > 0
  /\ activeSegmentId_ # EmptyId

(* --------------------------------- C8 ---------------------------------- *)

IdsOf(ids) == {ids[k] : k \in DOMAIN ids}
FirstOccurrence(ids, id) ==
  CHOOSE k \in DOMAIN ids :
    ids[k] = id /\ \A j \in 1..(k - 1) : ids[j] # id

\* C8: once built, the registry maps exactly the distinct ids of the latest
\* list, one to one onto 0..segmentCount-1, in order of first occurrence.
C8_RegistryBijection ==
  isBuilt_ =>
    /\ DOMAIN segmentIdMap_ = IdsOf(pageIds)
    /\ segmentCount_ = Cardinality(IdsOf(pageIds))
    /\ {segmentIdMap_[id] : id \in DOMAIN segmentIdMap_}
         = 0..(segmentCount_ - 1)
    /\ \A id \in DOMAIN segmentIdMap_ :
         segmentIdMap_[id] =
           Cardinality(
             {pageIds[j] : j \in 1..(FirstOccurrence(pageIds, id) - 1)})

\* A list with duplicates has replaced a list that held other ids.
C8_Witness ==
  /\ listChanges > 0
  /\ Len(pageIds) > Cardinality(IdsOf(pageIds))
  /\ created > Len(children)
  /\ 3 \notin DOMAIN segmentIdMap_

(* --------------------------------- C9 ---------------------------------- *)

\* C9: the sequence of segment elements used for layout has segmentCount
\* entries, the i-th being the element created for the id of index i (the
\* i-th child of the root).
C9_SegmentsAreCurrent ==
  /\ Len(segments_) = segmentCount_
  /\ \A i \in 1..segmentCount_ : segments_[i] = children[i]

(* --------------------------------- C10 --------------------------------- *)

\* C10: build() on a built bar returns the root of the first call and
\* changes nothing: no segment, subscription or state.
C10_BuildIdempotent ==
  isBuilt_ =>
    \A ids \in PageIdLists :
      LET r == build(This, ids)
      IN  /\ r.trace.ret = root_
          /\ root_ = 1
          /\ [r EXCEPT !.trace = NoTrace] = This

\* build() has been called again after a list change and an update.
C10_Witness ==
  /\ lastCall.op = "build"
  /\ listChanges > 0
  /\ activeSegmentId_ # EmptyId
  /\ lastCall.ret = root_

(* --------------------------------- C3 ---------------------------------- *)

\* The active index is in its visible-or-overflow range.
WalkInRange ==
  activeSegmentId_ # EmptyId =>
    /\ activeSegmentIndex_ >= firstExpandedSegmentIndex_ - leadingOverflowCount
    /\ activeSegmentIndex_ <
         firstExpandedSegmentIndex_ + MAX_SEGMENTS + trailingOverflowCount

\* The walk has reached the last segment.
WalkDone ==
  /\ activeSegmentId_ # EmptyId
  /\ activeSegmentIndex_ = segmentCount_ - 1

\* C3 as claimed: walking forward from a fresh bar one index at a time, the
\* window never moves back, the active index stays in its visible-or-overflow
\* range, and at the last index firstVisibleIndex + windowSize = n.
C3_WalkAsClaimed ==
  /\ [][firstExpandedSegmentIndex_' >= firstExpandedSegmentIndex_]_vars
  /\ [](WalkInRange)
  /\ [](WalkDone => firstExpandedSegmentIndex_ + MAX_SEGMENTS = segmentCount_)

\* C3, amended: the same, with the final window pinned to the end for the
\* stories that fill a window (n >= windowSize).
C3_Walk ==
  /\ [][firstExpandedSegmentIndex_' >= firstExpandedSegmentIndex_]_vars
  /\ [](WalkInRange)
  /\ [](WalkDone /\ segmentCount_ >= MAX_SEGMENTS =>
          firstExpandedSegmentIndex_ + MAX_SEGMENTS = segmentCount_)

\* A walk has reached the end of a story that took a full step and a final
\* shorter one.
C3_Witness ==
  /\ WalkDone
  /\ segmentCount_ > MAX_SEGMENTS + SEGMENT_INCREMENT
  /\ firstExpandedSegmentIndex_ + MAX_SEGMENTS = segmentCount_
  /\ lastCall.op = "updateProgress"

(* --------------------------------- C11 --------------------------------- *)

\* The step of the first updateProgress that succeeds on a bar: the bar had
\* no active segment ('') and has one afterwards.
FirstUpdateStep ==
  /\ activeSegmentId_ = EmptyId
  /\ activeSegmentId_' # EmptyId

\* C11: on the first updateProgress, if activeIndex > windowSize and
\* activeIndex + windowSize < segmentCount, then afterwards firstVisibleIndex
\* = activeIndex - (activeIndex mod windowSize); with n = 50 and activeIndex
\* = 25 this is firstVisibleIndex = 20 with 3 leading and 3 trailing
\* overflow markers.
C11_SnapToMultiple ==
  [][/\ FirstUpdateStep
     /\ activeSegmentIndex_' > MAX_SEGMENTS
     /\ activeSegmentIndex_' + MAX_SEGMENTS < segmentCount_'
     =>
     /\ firstExpandedSegmentIndex_' =
          activeSegmentIndex_' - (activeSegmentIndex_' % MAX_SEGMENTS)
     /\ segmentCount_' = 50 /\ activeSegmentIndex_' = 25 =>
          /\ firstExpandedSegmentIndex_' = 20
          /\ leadingOverflowCount' = 3
          /\ trailingOverflowCount' = 3]_vars

\* The first update of a bar of 50 segments went to index 25.
C11_Witness ==
  /\ lastCall.op = "updateProgress"
  /\ lastCall.fresh
  /\ ~lastCall.threw
  /\ segmentCount_ = 50
  /\ activeSegmentIndex_ = 25
  /\ firstExpandedSegmentIndex_ = 20
  /\ leadingOverflowCount = 3
  /\ trailingOverflowCount = 3

(* --------------------------------- C12 --------------------------------- *)

\* C12: the replay event sets firstVisibleIndex to 0 and requests one
\* relayout with animation disabled, and leaves the registry, the active
\* index, progress and id and every fill as they are; and no step other than
\* an updateProgress call (made by the caller or by the list-change handler)
\* changes the active state: not replay, resize, a directionality change or
\* a scheduler callback.
C12_ReplayFrame ==
  /\ [](listeners.replay > 0 =>
          LET r == replay_(This)
          IN  /\ r.firstExpandedSegmentIndex_ = 0
              /\ r.trace.renders = 1
              /\ Len(r.mutations) = Len(mutations) + 1
              /\ ~r.mutations[Len(r.mutations)].shouldAnimate
              /\ [r EXCEPT !.firstExpandedSegmentIndex_ =
                             firstExpandedSegmentIndex_,
                           !.mutations = mutations,
                           !.trace = NoTrace] = This)
  /\ [][<<activeSegmentIndex_, activeSegmentProgress_, activeSegmentId_>>'
          # <<activeSegmentIndex_, activeSegmentProgress_, activeSegmentId_>>
        => /\ lastCall'.op \in {"updateProgress", "pageIds"}
           /\ ~lastCall'.threw]_vars

\* A replay has just reset the window of a long story whose active segment
\* is not the first one; its relayout is waiting, not animated.
C12_Witness ==
  /\ lastCall.op = "replay"
  /\ activeSegmentId_ # EmptyId
  /\ activeSegmentIndex_ > 0
  /\ segmentCount_ > MAX_SEGMENTS
  /\ firstExpandedSegmentIndex_ = 0
  /\ mutations # <<>>
  /\ ~mutations[Len(mutations)].shouldAnimate

(* --------------------------------- C13 --------------------------------- *)

\* C13: when the directionality flag flips from left-to-right to
\* right-to-left while firstVisibleIndex, segmentCount and the width stay as
\* they are, then once the flip has been handled every segment's applied
\* offset is the negation of the one it had and its applied width is the
\* same.
C13_FlipNegatesOffsets ==
  [][/\ ~rtlState
     /\ rtlState'
     /\ UNCHANGED <<firstExpandedSegmentIndex_, segmentCount_, barWidthPx_>>
     =>
     /\ layout'.den = layout.den
     /\ layout'.segs =
          [i \in DOMAIN layout.segs |->
             [layout.segs[i] EXCEPT !.translateX = 0 - @]]]_vars

(* --------------------------------- C14 --------------------------------- *)

\* The snap-to-multiple condition of the initial window, after the call.
SnapCondition ==
  /\ activeSegmentIndex_ > MAX_SEGMENTS
  /\ activeSegmentIndex_ + MAX_SEGMENTS < segmentCount_

\* C14 as claimed: on the first updateProgress with segmentCount >
\* windowSize and without the snap condition, firstVisibleIndex is
\* segmentCount - windowSize afterwards if activeIndex + windowSize >=
\* segmentCount, and 0 only otherwise.
C14_PinNearEndAsClaimed ==
  [][/\ FirstUpdateStep
     /\ segmentCount_' > MAX_SEGMENTS
     /\ ~SnapCondition'
     =>
     firstExpandedSegmentIndex_' =
       IF activeSegmentIndex_' + MAX_SEGMENTS >= segmentCount_'
       THEN segmentCount_' - MAX_SEGMENTS
       ELSE 0]_vars

\* C14, amended: without the snap condition the window is pinned to
\* segmentCount - windowSize if activeIndex > windowSize; it stays at 0 if
\* activeIndex < windowSize; and for activeIndex = windowSize the overflow
\* check moves it one step from 0, to min(recenterStep, segmentCount -
\* windowSize).
C14_PinNearEnd ==
  [][/\ FirstUpdateStep
     /\ segmentCount_' > MAX_SEGMENTS
     /\ ~SnapCondition'
     =>
     firstExpandedSegmentIndex_' =
       IF activeSegmentIndex_' > MAX_SEGMENTS
       THEN segmentCount_' - MAX_SEGMENTS
       ELSE IF activeSegmentIndex_' < MAX_SEGMENTS
       THEN 0
       ELSE Min(SEGMENT_INCREMENT, segmentCount_' - MAX_SEGMENTS)]_vars

\* The first update went beyond index MAX_SEGMENTS, too close to the end to
\* snap: the window is the last full one.
C14_Witness ==
  /\ lastCall.op = "updateProgress"
  /\ lastCall.fresh
  /\ ~lastCall.threw
  /\ ~SnapCondition
  /\ activeSegmentIndex_ > MAX_SEGMENTS
  /\ activeSegmentIndex_ < segmentCount_ - 1
  /\ firstExpandedSegmentIndex_ = segmentCount_ - MAX_SEGMENTS

(* --------------------------------- C15 --------------------------------- *)

\* A step of build, updateProgress or an event handler, not one of the
\* scheduler's callbacks or a change of RTL_STATE.
HandlerStep ==
  /\ Len(mutations') >= Len(mutations)
  /\ measures' >= measures
  /\ rtlState' = rtlState

\* A step in which updateProgress ran to its end: called by the caller or by
\* the PAGE_IDS handler.
UpdateProgressStep ==
  /\ HandlerStep
  /\ lastCall'.op \in {"updateProgress", "pageIds"}
  /\ ~lastCall'.threw

\* firstExpandedSegmentIndex_ when that call reached checkIndexForOverflow_:
\* the value before the call, or the initial window if the call set one.
WindowBeforeCheck ==
  IF activeSegmentIndex_ = 0
  THEN getInitialFirstExpandedSegmentIndex_(
         [This EXCEPT !.segmentCount_ = segmentCount_'],
         activeSegmentIndex_').firstExpandedSegmentIndex_
  ELSE firstExpandedSegmentIndex_

\* C15: each overflow check moves the window by a bounded step: forward by
\* recenterStep if firstVisibleIndex + windowSize + recenterStep - 1 <
\* segmentCount, otherwise by segmentCount - (firstVisibleIndex +
\* windowSize), which is between 1 and recenterStep - 1 and puts the end of
\* the window at segmentCount; backward by min(recenterStep,
\* firstVisibleIndex), never below 0.
C15_BoundedStep ==
  [][UpdateProgressStep =>
       LET f0 == WindowBeforeCheck
           f1 == firstExpandedSegmentIndex_'
           a == activeSegmentIndex_'
           n == segmentCount_'
       IN  /\ a >= f0 + MAX_SEGMENTS =>
                IF f0 + MAX_SEGMENTS + SEGMENT_INCREMENT - 1 < n
                THEN f1 = f0 + SEGMENT_INCREMENT
                ELSE /\ f1 - f0 = n - (f0 + MAX_SEGMENTS)
                     /\ f1 - f0 >= 1
                     /\ f1 - f0 <= SEGMENT_INCREMENT - 1
                     /\ f1 + MAX_SEGMENTS = n
           /\ a < f0 =>
                /\ f1 = f0 - Min(SEGMENT_INCREMENT, f0)
                /\ f1 >= 0]_vars

\* An overflow check has just moved the window by less than a full step, to
\* the end of the story; its animated relayout is waiting.
C15_Witness ==
  /\ UpdateProgressDone
  /\ ~lastCall.fresh
  /\ mutations # <<>>
  /\ mutations[Len(mutations)].shouldAnimate
  /\ firstExpandedSegmentIndex_ + MAX_SEGMENTS = segmentCount_
  /\ firstExpandedSegmentIndex_ % SEGMENT_INCREMENT # 0

(* --------------------------------- C16 --------------------------------- *)

\* C16: the initial window and its forced relayout happen only on the first
\* updateProgress.  On every later updateProgress whose new active index
\* already lies in [firstVisibleIndex, firstVisibleIndex + windowSize) the
\* window is unchanged and no relayout is requested, whatever the previous
\* active index was (0 included).
C16_InitialWindowOnce ==
  [][/\ HandlerStep
     /\ lastCall'.op = "updateProgress"
     /\ ~lastCall'.threw
     /\ activeSegmentId_ # EmptyId
     /\ activeSegmentIndex_' >= firstExpandedSegmentIndex_
     /\ activeSegmentIndex_' < firstExpandedSegmentIndex_ + MAX_SEGMENTS
     =>
     /\ firstExpandedSegmentIndex_' = firstExpandedSegmentIndex_
     /\ mutations' = mutations]_vars

(* --------------------------------- C17 --------------------------------- *)

\* C17: every segment-list change handled after build() requests a relayout
\* before its handler returns, also when the active index is not 0 and the
\* overflow check leaves the window as it is; so does every resize and
\* every replay.
C17_ChangesRequestRelayout ==
  [][/\ listChanges' = listChanges + 1 /\ ~lastCall'.threw =>
          Len(mutations') > Len(mutations)
     /\ HandlerStep /\ lastCall'.op \in {"resize", "replay"} =>
          Len(mutations') > Len(mutations)]_vars

(* --------------------------------- C18 --------------------------------- *)

\* Widths barWidthPx_ can hold: 0 before the first measure, then a page
\* width less the padding.
BarWidths == {0} \cup {w - PROGRESS_BAR_PADDING_PX : w \in PageWidths}

\* The instance with the window, count and width of a snapshot (f, n, w).
Snapshot(f, n, w) ==
  [This EXCEPT !.firstExpandedSegmentIndex_ = f,
               !.segmentCount_ = n,
               !.barWidthPx_ = w,
               !.mutations = <<>>]

\* The layout pass that derives from the snapshot (f, n, w) alone.
SnapshotLayout(f, n, w, shouldAnimate) ==
  LET job == render_(Snapshot(f, n, w), shouldAnimate).mutations[1]
      den == Max(job.segmentWidth.den, 1)
  IN  [den |-> den,
       segs |-> renderLoop(Snapshot(f, n, w), job, rtlState, 0,
                           [n |-> job.translateX * den, finite |-> TRUE])]

\* C18: every layout pass that is applied derives from one snapshot of
\* (firstVisibleIndex, segmentCount, width), taken when the relayout was
\* requested: its starting offset, its segment width, each segment's choice
\* between that width and the overflow width, and the number of segments
\* laid out.
C18_LayoutFromOneSnapshot ==
  [][Len(mutations') < Len(mutations) =>
       LET job == Head(mutations)
       IN  \E f \in 0..Len(segments_), n \in 0..Len(segments_),
              w \in BarWidths :
             /\ render_(Snapshot(f, n, w), job.shouldAnimate).mutations[1]
                  = job
             /\ layout' = SnapshotLayout(f, n, w, job.shouldAnimate)]_vars

(* --------------------------------- C19 --------------------------------- *)

\* C19: a segment-list change delivered after build() does not fail with the
\* unknown-segment assertion if no progress update has happened yet or if
\* the active segment id is in the new list: the handler completes, with the
\* registry rebuilt from the new list.
C19_ListChangeCompletes ==
  [][/\ listChanges' = listChanges + 1
     /\ \/ activeSegmentId_ = EmptyId
        \/ activeSegmentId_ \in IdsOf(pageIds')
     =>
     /\ ~lastCall'.threw
     /\ DOMAIN segmentIdMap_' = IdsOf(pageIds')]_vars

(* --------------------------------- C20 --------------------------------- *)

\* C20: on the first updateProgress, when no segment was active before, no
\* non-active segment is written with a transition, whatever the target
\* index and progress: the placeholder state (index 0, progress 1) does not
\* count as a previous segment.
C20_FirstUpdateAnimatesNothing ==
  [][FirstUpdateStep => lastCall'.animated = {}]_vars
=============================================================================
